---- MODULE Spec2Model ----
(***************************************************************************)
(* The multi-provider request gateway of aero-service/main.py: the 60 s    *)
(* response cache, the 4 s throttle behind _OPENAI_LOCK, the 429 retry     *)
(* loop of _post_json, the provider strategies and the model_research      *)
(* endpoint, and the newline-delimited JSON streams of research_plan and   *)
(* experimentalist.  Time is the monotonic clock in whole seconds.         *)
(* Coroutines run on one event loop and are cut at their await points;     *)
(* _send runs on a worker thread; gemini's generate_content blocks the     *)
(* event loop.                                                             *)
(***************************************************************************)
EXTENDS Integers, Sequences, FiniteSets, TLC

VARIABLES
    now,                \* time.monotonic()
    ticks,              \* number of free clock advances taken so far
    OPENAI_API_KEY,     \* main.py:43, None or the stripped key
    GOOGLE_API_KEY,     \* main.py:56, None or the key
    _RESP_CACHE,        \* main.py:165, key -> (ts, text)
    _last_openai_call,  \* main.py:163
    lockHolder,         \* _OPENAI_LOCK: the request inside "async with", 0 when free
    lockWaiters,        \* _OPENAI_LOCK: FIFO of requests waiting in acquire()
    loopBusy,           \* the request whose synchronous call blocks the event loop, or 0
    task,               \* per request: the position and locals of its coroutine / thread
    obs,                \* per request: what an observer of the call records
    storedBy,           \* observer: which request wrote each cache entry
    lastBy,             \* observer: the strategy whose acquisition set _last_openai_call
    outLast,            \* observer: per endpoint, time of the latest outbound call (-1: none)
    outMinGap,          \* observer: per endpoint, smallest gap seen between consecutive calls
    run_experiment_designer,  \* main.py:28-31, the imported designer, or None
    stream,             \* a streaming request: its generator and the response body so far
    probe               \* a direct caller of _cache_set / _cache_get: what it stored and got

\* the variables of the model-research gateway
gateway == <<now, ticks, OPENAI_API_KEY, GOOGLE_API_KEY, _RESP_CACHE, _last_openai_call,
             lockHolder, lockWaiters, loopBusy, task, obs, storedBy, lastBy, outLast, outMinGap>>

vars == <<gateway, run_experiment_designer, stream, probe>>

-----------------------------------------------------------------------------
\* Bounds of the model: the number of calls of the heavy workloads, the
\* number of calls of the light ones, the number of free clock advances, the
\* clock reading when the service starts.
NReq == 2
MaxCalls == 3
MaxTicks == 2
BootClock == 2
MaxUpdates == 3

\* Program constants.
_RATE_WINDOW_SEC == 4
_RESP_TTL == 60
max_retries == 5
KeyPrefixLen == 1000

\* the request slots, and those the heavy workloads use
Reqs == 1..MaxCalls
Callers == 1..NReq

\* Python's None.  A value that may be None (Optional[str]) is a set of at
\* most one string: None is the empty set, the string s is {s}.
None == {}

\* random.uniform(0, 1.5), in whole seconds
JitterChoices == {0, 1}

\* The free clock advances: one second, or one TTL.
TickSteps == {1, _RESP_TTL}

\* req.provider: Optional[str] = None.  An optional string is a set of at
\* most one string; NoProvider is the field left at its default, None.
NoProvider == None

\* req.provider values a caller may send
ProviderIds ==
    {NoProvider} \cup {{id} : id \in {"", "openai", "gemini", "tavily", "nonexistent-provider"}}

\* req.prompt values: strings as sequences of characters
Prompts == { <<" ", "a", "\f">>, <<"b">> }

\* texts a provider may answer with
Texts == {"T1", "T2"}

Apology == "I'm at capacity right now. Please try again in a few seconds."
NoResponse == "No response."

-----------------------------------------------------------------------------
\* Pure helpers

Min(a, b) == IF a < b THEN a ELSE b

RECURSIVE Pow2(_)
Pow2(n) == IF n = 0 THEN 1 ELSE 2 * Pow2(n - 1)

\* str.isspace(): the characters str.strip() removes.  A character with no
\* TLA+ escape is written as its code point.
Whitespace ==
    {"\t", "\n", "U+000B", "\f", "\r", "U+001C", "U+001D", "U+001E", "U+001F", " ",
     "U+0085", "U+00A0", "U+1680", "U+2000", "U+2001", "U+2002", "U+2003", "U+2004",
     "U+2005", "U+2006", "U+2007", "U+2008", "U+2009", "U+200A", "U+2028", "U+2029",
     "U+202F", "U+205F", "U+3000"}

IsSpace(c) == c \in Whitespace

RECURSIVE LStrip(_)
LStrip(s) == IF s # << >> /\ IsSpace(Head(s)) THEN LStrip(Tail(s)) ELSE s

RECURSIVE RStrip(_)
RStrip(s) ==
    IF s # << >> /\ IsSpace(s[Len(s)]) THEN RStrip(SubSeq(s, 1, Len(s) - 1)) ELSE s

\* str.strip()
Strip(s) == RStrip(LStrip(s))

\* s[:n]
Prefix(s, n) == SubSeq(s, 1, Min(Len(s), n))

\* key = (provider, prompt.strip()[:1000])
CacheKey_whole_prompt(provider, prompt) == <<provider, Strip(prompt)>>

CacheKey(provider, prompt) == <<provider, Prefix(Strip(prompt), KeyPrefixLen)>>

-----------------------------------------------------------------------------
\* Response cache (main.py:165-181)

\* Python truthiness of an Optional[str]
Truthy(x) == x # None /\ x # {""}

DropKey(cache, key) == [k \in (DOMAIN cache) \ {key} |-> cache[k]]

PutKey(cache, key, val) ==
    [k \in (DOMAIN cache) \cup {key} |-> IF k = key THEN val ELSE cache[k]]

\* _cache_get at clock reading t: the text returned (None for a miss) and the cache it leaves
_cache_get_stale_kept(cache, t, provider, prompt) ==
    LET key == CacheKey(provider, prompt) IN
    IF key \notin DOMAIN cache
    THEN [text |-> None, cache |-> cache]
    ELSE IF t - cache[key].ts > _RESP_TTL
         THEN [text |-> None, cache |-> cache]
         ELSE [text |-> {cache[key].text}, cache |-> cache]

_cache_get_half_ttl(cache, t, provider, prompt) ==
    LET key == CacheKey(provider, prompt) IN
    IF key \notin DOMAIN cache
    THEN [text |-> None, cache |-> cache]
    ELSE IF 2 * (t - cache[key].ts) > _RESP_TTL
         THEN [text |-> None, cache |-> DropKey(cache, key)]
         ELSE [text |-> {cache[key].text}, cache |-> cache]

_cache_get_refreshes(cache, t, provider, prompt) ==
    LET key == CacheKey(provider, prompt) IN
    IF key \notin DOMAIN cache
    THEN [text |-> None, cache |-> cache]
    ELSE IF t - cache[key].ts > _RESP_TTL
         THEN [text |-> None, cache |-> DropKey(cache, key)]
         ELSE [text |-> {cache[key].text},
               cache |-> PutKey(cache, key, [ts |-> t, text |-> cache[key].text])]

_cache_get_strict(cache, t, provider, prompt) ==
    LET key == CacheKey(provider, prompt) IN
    IF key \notin DOMAIN cache
    THEN [text |-> None, cache |-> cache]
    ELSE IF t - cache[key].ts >= _RESP_TTL
         THEN [text |-> None, cache |-> DropKey(cache, key)]
         ELSE [text |-> {cache[key].text}, cache |-> cache]

_cache_get(cache, t, provider, prompt) ==
    LET key == CacheKey(provider, prompt) IN
    IF key \notin DOMAIN cache
    THEN [text |-> None, cache |-> cache]
    ELSE IF t - cache[key].ts > _RESP_TTL
         THEN [text |-> None, cache |-> DropKey(cache, key)]
         ELSE [text |-> {cache[key].text}, cache |-> cache]

\* _cache_set at clock reading t
_cache_set(cache, t, provider, prompt, text) ==
    PutKey(cache, CacheKey(provider, prompt), [ts |-> t, text |-> text])

\* The cache after the try block of a strategy: _cache_set is reached
\* (lines 246, 263) only when nothing was raised before it
cache_after_call_always(cache, t, provider, prompt, failed, text) ==
    _cache_set(cache, t, provider, prompt, text)

cache_after_call(cache, t, provider, prompt, failed, text) ==
    IF failed THEN cache ELSE _cache_set(cache, t, provider, prompt, text)

-----------------------------------------------------------------------------
\* Provider responses and envelopes

\* JSON bodies of a 200 answer: choices[0].message.content, a body without
\* "choices", a body with an empty "choices" list
NoData == [hasChoices |-> FALSE, choices |-> << >>]
Bodies ==
    {[hasChoices |-> TRUE, choices |-> <<c>>] : c \in Texts \cup {""}}
    \cup {[hasChoices |-> TRUE, choices |-> << >>]}

\* What one requests.post ends with: the exception raised ("none" for a reply
\* that passes raise_for_status and json()), the HTTP status, the body
Outcomes ==
    {[raised |-> "none", status_code |-> 200, data |-> d] : d \in Bodies}
    \cup {[raised |-> "HTTPError", status_code |-> c, data |-> NoData] : c \in {429, 500}}
    \cup {[raised |-> e, status_code |-> 0, data |-> NoData] :
             e \in {"ConnectionError", "Timeout"}}

NoOutcome == [raised |-> "none", status_code |-> 0, data |-> NoData]

\* What gemini_model.generate_content(prompt) / response.text ends with
GeminiOutcomes ==
    {[raised |-> FALSE, text |-> c] : c \in Texts \cup {""}}
    \cup {[raised |-> TRUE, text |-> ""]}

\* line 245: data.get("choices", [{}])[0].get("message", {}).get("content", "") or "No response."
ExtractMessage(data) ==
    LET choices == IF data.hasChoices THEN data.choices ELSE <<"">> IN
    IF Len(choices) = 0
    THEN [raised |-> TRUE, text |-> ""]
    ELSE [raised |-> FALSE, text |-> IF choices[1] = "" THEN NoResponse ELSE choices[1]]

\* The envelope {"ok", "data": {"summary", "provider", "raw"}}; top is the
\* top-level "provider" key, "absent" when the dict has none
_format_provider_response(provider, summary, raw) ==
    [ok |-> TRUE, summary |-> summary, provider |-> provider, raw |-> raw, top |-> "absent"]

NoEnv == [ok |-> FALSE, summary |-> "", provider |-> "", raw |-> "", top |-> ""]

\* the except branches of _call_openai (line 251) and _call_gemini (line 267)
Degraded_error(strategy) ==
    [ok |-> FALSE, summary |-> "provider error", provider |-> strategy, raw |-> "error",
     top |-> "absent"]

Degraded(strategy) == _format_provider_response(strategy, Apology, "rate_limited")

\* call_selected_provider: the strategy serving a provider id
Strategy_known_only(provider) ==
    IF provider \in {"openai", "tavily"} THEN "openai" ELSE "gemini"

Strategy(provider) == IF provider = "gemini" THEN "gemini" ELSE "openai"

\* the string of an optional string that has one
Value(p) == CHOOSE id \in p : TRUE

\* p or default: None and the empty string are falsy
Or(p, default) == IF p = NoProvider \/ Value(p) = "" THEN default ELSE Value(p)

\* line 299: req.provider or "openai"
Requested(p) == Or(p, "openai")

\* _call_tavily, lines 273-276: what it does to the result of _call_openai
_call_tavily(result) == [result EXCEPT !.top = "tavily"]

\* the result as it leaves call_selected_provider
Routed(provider, result) == IF provider = "tavily" THEN _call_tavily(result) ELSE result

\* str(e) for the AttributeError of line 225, inside the f-string of line 311
ErrorSummary(p) ==
    "Error calling " \o Or(p, "model") \o ": " \o "'NoneType' object has no attribute 'strip'"

\* model_research, lines 305-314: the fallback response
Fallback_http_500(p) == NoEnv

Fallback(p) ==
    [ok |-> TRUE, summary |-> ErrorSummary(p), provider |-> Requested(p),
     raw |-> "absent", top |-> "absent"]

-----------------------------------------------------------------------------
\* Streaming (main.py:319-392): strings are sequences of characters

LF == "\n"
Quote == "\""
Backslash == "\\"

\* the endpoints whose generate() is "yield json.dumps(update) + newline"
StreamEndpoints == {"research-plan", "experiment-design", "experiment-suggestions"}

\* partial-result objects a producer may yield (JSON strings)
Updates == { << >>, <<"a">>, <<"a", LF, "b">>, <<"\t", "U+00E9", Quote, "U+1F600">> }

\* the finite sequences a producer may yield
Productions == UNION {[1..n -> Updates] : n \in 0..MaxUpdates}

\* the value of the hexadecimal digit d of a code point "U+..."
HexValue(d) == CHOOSE v \in 0..15 : SubSeq("0123456789ABCDEF", v + 1, v + 1) = d

\* the number written by the first n digits of h
RECURSIVE HexNumber(_, _)
HexNumber(h, n) ==
    IF n = 0 THEN 0 ELSE 16 * HexNumber(h, n - 1) + HexValue(SubSeq(h, n, n))

\* ord(c) of a character written as its code point
CodePoint(c) == HexNumber(SubSeq(c, 3, Len(c)), Len(c) - 2)

\* '\\u{0:04x}'.format(n)
UnicodeEscape(n) ==
    LET x(v) == SubSeq("0123456789abcdef", v + 1, v + 1)
    IN <<Backslash, "u", x((n \div 4096) % 16), x((n \div 256) % 16), x((n \div 16) % 16),
         x(n % 16)>>

\* json.dumps with ensure_ascii: the escape of one character.  The quote, the
\* backslash and five control characters have short escapes; every other
\* character outside ' '..'~' is written \uXXXX, as a surrogate pair above
\* U+FFFF; the printable ASCII characters stand for themselves.
EscapeChar(c) ==
    CASE c = Quote -> <<Backslash, Quote>>
      [] c = Backslash -> <<Backslash, Backslash>>
      [] c = LF -> <<Backslash, "n">>
      [] c = "\r" -> <<Backslash, "r">>
      [] c = "\t" -> <<Backslash, "t">>
      [] c = "\f" -> <<Backslash, "f">>
      [] c = "U+0008" -> <<Backslash, "b">>
      [] OTHER ->
           IF Len(c) = 1 THEN <<c>>
           ELSE LET n == CodePoint(c) IN
                IF n < 65536 THEN UnicodeEscape(n)
                ELSE UnicodeEscape(55296 + ((n - 65536) \div 1024))
                         \o UnicodeEscape(56320 + ((n - 65536) % 1024))

\* json.dumps of a string: the body between the quotes
RECURSIVE Escape(_)
Escape(s) == IF s = << >> THEN << >> ELSE EscapeChar(Head(s)) \o Escape(Tail(s))

json_dumps_raw(u) == <<Quote>> \o u \o <<Quote>>

json_dumps(u) == <<Quote>> \o Escape(u) \o <<Quote>>

\* the generator before the request, with nothing sent
NoStream ==
    [pc |-> "idle", endpoint |-> "", updates |-> << >>, pending |-> << >>, body |-> << >>]

-----------------------------------------------------------------------------
\* Direct use of the cache (main.py:168-181)

\* n characters "x"
Filler(n) == [i \in 1..n |-> "x"]

\* prompts around the KeyPrefixLen boundary: two that differ only after it,
\* two that differ at it, one wrapped in whitespace, two that differ by a
\* blank at it, one wrapped in a form feed, a no-break space and a line
\* separator, and the short ones
KeyPrompts ==
    { Filler(KeyPrefixLen) \o <<"a">>,
      Filler(KeyPrefixLen) \o <<"b">>,
      Filler(KeyPrefixLen - 1) \o <<"a">>,
      Filler(KeyPrefixLen - 1) \o <<"b">>,
      <<" ", "\t">> \o Filler(KeyPrefixLen) \o <<"a", "\n", " ">>,
      Filler(KeyPrefixLen - 1) \o <<" ", "a">>,
      <<"\f", "U+00A0">> \o Filler(KeyPrefixLen - 1) \o <<"a", "U+2028">>,
      Filler(KeyPrefixLen - 1) } \cup Prompts

\* nothing stored, nothing looked up
NoProbe ==
    [pc |-> "idle", setProvider |-> None, setPrompt |-> << >>, setText |-> None, setT |-> 0,
     getProvider |-> None, getPrompt |-> << >>, got |-> None, getT |-> 0]

-----------------------------------------------------------------------------
\* State

IdleTask ==
    [pc |-> "idle", provider |-> NoProvider, prompt |-> << >>, attempt |-> 0, wake |-> 0,
     data |-> NoData, exc |-> FALSE]

NoObs ==
    [out |-> 0, n429 |-> 0, sleeps |-> 0, slept |-> 0, last |-> NoOutcome,
     got |-> None, seenAge |-> -1, sawBy |-> 0, follows |-> {},
     ret |-> "none", env |-> NoEnv, startT |-> 0, acqT |-> -1, doneT |-> 0]

Endpoints == {"openai", "gemini"}

Init ==
    /\ now = BootClock
    /\ ticks = 0
    /\ OPENAI_API_KEY \in {None, {"sk-key"}}
    /\ GOOGLE_API_KEY \in {None, {"AIza-key"}}
    /\ _RESP_CACHE = << >>
    /\ _last_openai_call = 0
    /\ lockHolder = 0
    /\ lockWaiters = << >>
    /\ loopBusy = 0
    /\ task = [r \in Reqs |-> IdleTask]
    /\ obs = [r \in Reqs |-> NoObs]
    /\ storedBy = << >>
    /\ lastBy = "none"
    /\ outLast = [e \in Endpoints |-> -1]
    /\ outMinGap = [e \in Endpoints |-> _RATE_WINDOW_SEC]
    /\ run_experiment_designer \in {None, {"run_experiment_designer"}}
    /\ stream = NoStream
    /\ probe = NoProbe

-----------------------------------------------------------------------------
\* Fragments shared by the event-loop actions

StrategyOf(t) == Strategy(Requested(t.provider))

\* the coroutine of request r returns (ret = "envelope") or raises out of
\* call_selected_provider (ret = "exception"); env is what model_research answers
Return(r, t, o, ret, env) ==
    /\ task' = [task EXCEPT ![r] =
                   [IdleTask EXCEPT !.pc = "done", !.provider = t.provider, !.prompt = t.prompt]]
    /\ obs' = [obs EXCEPT ![r] = [o EXCEPT !.ret = ret, !.env = env, !.doneT = now]]

\* the observer notes one outbound call to endpoint e
NoteOutbound(e) ==
    /\ outLast' = [outLast EXCEPT ![e] = now]
    /\ outMinGap' = [outMinGap EXCEPT ![e] =
                        IF outLast[e] < 0 THEN @ ELSE Min(@, now - outLast[e])]

\* _call_openai line 251 / _call_gemini line 267: the except branch
Except_reraises(r, t, o) == Return(r, t, o, "exception", Fallback(t.provider))

Except(r, t, o) ==
    Return(r, t, o, "envelope", Routed(Requested(t.provider), Degraded(StrategyOf(t))))

\* What follows "await _respect_openai_rl()": _post_json hands _send to a
\* worker thread (line 212); _call_gemini calls generate_content on the event
\* loop (line 261), where an unset GOOGLE_API_KEY left gemini_model undefined
AfterAcquire(r, t, o) ==
    IF StrategyOf(t) = "openai"
    THEN /\ task' = [task EXCEPT ![r] = [t EXCEPT !.pc = "to_thread", !.attempt = 0]]
         /\ obs' = [obs EXCEPT ![r] = o]
         /\ UNCHANGED <<loopBusy, outLast, outMinGap>>
    ELSE IF GOOGLE_API_KEY = None
         THEN /\ Except(r, t, o)
              /\ UNCHANGED <<loopBusy, outLast, outMinGap>>
         ELSE /\ task' = [task EXCEPT ![r] = [t EXCEPT !.pc = "gemini_call"]]
              /\ obs' = [obs EXCEPT ![r] = [o EXCEPT !.out = @ + 1]]
              /\ loopBusy' = r
              /\ NoteOutbound("gemini")

\* _respect_openai_rl line 190 and the exit of "async with"
Reserve_keeps_lock(r, t, o) ==
    /\ _last_openai_call' = now
    /\ lastBy' = StrategyOf(t)
    /\ lockHolder' = r
    /\ AfterAcquire(r, t, [o EXCEPT !.acqT = now])

Reserve(r, t, o) ==
    /\ _last_openai_call' = now
    /\ lastBy' = StrategyOf(t)
    /\ lockHolder' = 0
    /\ AfterAcquire(r, t, [o EXCEPT !.acqT = now])

\* _respect_openai_rl lines 186-190, the lock just taken
Locked(r, t, o) ==
    LET wait == _RATE_WINDOW_SEC - (now - _last_openai_call) IN
    IF wait > 0
    THEN /\ task' = [task EXCEPT ![r] = [t EXCEPT !.pc = "rl_sleep", !.wake = now + wait]]
         /\ obs' = [obs EXCEPT ![r] = o]
         /\ lockHolder' = r
         /\ UNCHANGED <<_last_openai_call, lastBy, loopBusy, outLast, outMinGap>>
    ELSE Reserve(r, t, o)

\* _respect_openai_rl line 185: asyncio.Lock.acquire() takes a free lock
\* with no waiter at once, and queues otherwise
_respect_openai_rl_no_lock(r, t, o) ==
    /\ Locked(r, t, o)
    /\ UNCHANGED lockWaiters

_respect_openai_rl(r, t, o) ==
    IF lockHolder = 0 /\ lockWaiters = << >>
    THEN /\ Locked(r, t, o)
         /\ UNCHANGED lockWaiters
    ELSE /\ task' = [task EXCEPT ![r] = [t EXCEPT !.pc = "lock_wait"]]
         /\ obs' = [obs EXCEPT ![r] = o]
         /\ lockWaiters' = Append(lockWaiters, r)
         /\ UNCHANGED <<_last_openai_call, lastBy, lockHolder, loopBusy, outLast, outMinGap>>

-----------------------------------------------------------------------------
\* Event-loop actions (none runs while a synchronous call blocks the loop)

\* POST /api/model-research with provider p and prompt q, up to the first
\* suspension: model_research -> call_selected_provider -> _call_openai /
\* _call_gemini lines 220-243 / 255-260
model_research(r, p, q) ==
    /\ loopBusy = 0
    /\ task[r].pc = "idle"
    /\ \A s \in Reqs : s < r => task[s].pc # "idle"
    /\ LET provider == Requested(p)
           strategy == Strategy(provider)
           key == CacheKey(strategy, q)
           g == _cache_get(_RESP_CACHE, now, strategy, q)
           t == [task[r] EXCEPT !.provider = p, !.prompt = q]
           o == [obs[r] EXCEPT
                   !.startT = now,
                   !.got = g.text,
                   !.seenAge = IF key \in DOMAIN _RESP_CACHE
                               THEN now - _RESP_CACHE[key].ts ELSE -1,
                   !.sawBy = IF key \in DOMAIN _RESP_CACHE THEN storedBy[key] ELSE 0,
                   !.follows = {s \in Reqs : /\ obs[s].ret # "none"
                                             /\ now - obs[s].doneT <= _RESP_TTL}]
       IN /\ _RESP_CACHE' = g.cache
          /\ storedBy' = [k \in DOMAIN g.cache |-> storedBy[k]]
          /\ IF Truthy(g.text)
             THEN \* lines 221-222 / 256-257: answered from the cache
                  /\ Return(r, t, o, "envelope",
                            Routed(provider, _format_provider_response(strategy, Value(g.text), "cached")))
                  /\ UNCHANGED <<_last_openai_call, lastBy, lockHolder, lockWaiters,
                                 loopBusy, outLast, outMinGap>>
             ELSE IF strategy = "openai" /\ OPENAI_API_KEY = None
                  THEN \* line 225: None.strip() raises outside the try block
                       /\ Return(r, t, o, "exception", Fallback(p))
                       /\ UNCHANGED <<_last_openai_call, lastBy, lockHolder, lockWaiters,
                                      loopBusy, outLast, outMinGap>>
                  ELSE _respect_openai_rl(r, t, o)
    /\ UNCHANGED <<now, ticks, OPENAI_API_KEY, GOOGLE_API_KEY, run_experiment_designer, stream, probe>>

\* a waiter of _OPENAI_LOCK is woken by the release and takes the lock
LockGranted(r) ==
    /\ loopBusy = 0
    /\ task[r].pc = "lock_wait"
    /\ lockHolder = 0
    /\ lockWaiters # << >>
    /\ Head(lockWaiters) = r
    /\ lockWaiters' = Tail(lockWaiters)
    /\ Locked(r, task[r], obs[r])
    /\ UNCHANGED <<now, ticks, OPENAI_API_KEY, GOOGLE_API_KEY, run_experiment_designer, stream, probe, _RESP_CACHE, storedBy>>

\* asyncio.sleep(wait) of line 189 is over
RlWake(r) ==
    /\ loopBusy = 0
    /\ task[r].pc = "rl_sleep"
    /\ now >= task[r].wake
    /\ Reserve(r, task[r], obs[r])
    /\ UNCHANGED <<now, ticks, OPENAI_API_KEY, GOOGLE_API_KEY, run_experiment_designer, stream, probe, _RESP_CACHE, storedBy,
                   lockWaiters>>

\* The worker thread's result is back on the event loop: _call_openai lines
\* 245-251, then _call_tavily's patch and model_research's return
Resume(r) ==
    /\ loopBusy = 0
    /\ task[r].pc = "thread_done"
    /\ LET t == task[r]
           o == obs[r]
           m == ExtractMessage(t.data)
           failed == t.exc \/ m.raised
           message == IF failed THEN Apology ELSE m.text
       IN /\ _RESP_CACHE' = cache_after_call(_RESP_CACHE, now, "openai", t.prompt,
                                             failed, message)
          /\ storedBy' = IF failed /\ _RESP_CACHE' = _RESP_CACHE
                         THEN storedBy
                         ELSE PutKey(storedBy, CacheKey("openai", t.prompt), r)
          /\ IF failed
             THEN Except(r, t, o)
             ELSE Return(r, t, o, "envelope",
                         Routed(Requested(t.provider),
                                _format_provider_response("openai", message, "data")))
    /\ UNCHANGED <<now, ticks, OPENAI_API_KEY, GOOGLE_API_KEY, run_experiment_designer, stream, probe, _last_openai_call, lastBy,
                   lockHolder, lockWaiters, loopBusy, outLast, outMinGap>>

\* generate_content returns or raises: _call_gemini lines 261-267, then
\* model_research's return; the event loop is free again
GeminiReturn(r, oc) ==
    /\ loopBusy = r
    /\ task[r].pc = "gemini_call"
    /\ LET t == task[r]
           o == [obs[r] EXCEPT !.last =
                    [raised |-> IF oc.raised THEN "GeminiError" ELSE "none",
                     status_code |-> 0,
                     data |-> [hasChoices |-> TRUE, choices |-> <<oc.text>>]]]
           message == IF oc.raised THEN Apology
                      ELSE IF oc.text = "" THEN NoResponse ELSE oc.text
       IN /\ _RESP_CACHE' = cache_after_call(_RESP_CACHE, now, "gemini", t.prompt,
                                             oc.raised, message)
          /\ storedBy' = IF oc.raised /\ _RESP_CACHE' = _RESP_CACHE
                         THEN storedBy
                         ELSE PutKey(storedBy, CacheKey("gemini", t.prompt), r)
          /\ IF oc.raised
             THEN Except(r, t, o)
             ELSE Return(r, t, o, "envelope",
                         _format_provider_response("gemini", message, "gemini_response"))
    /\ loopBusy' = 0
    /\ UNCHANGED <<now, ticks, OPENAI_API_KEY, GOOGLE_API_KEY, run_experiment_designer, stream, probe, _last_openai_call, lastBy,
                   lockHolder, lockWaiters, outLast, outMinGap>>

-----------------------------------------------------------------------------
\* Worker-thread actions: _post_json._send (main.py:195-211)

\* line 203: the reply is an HTTPError whose response has status 429
rate_limited_any_http(oc) == oc.raised = "HTTPError"

rate_limited(oc) == oc.raised = "HTTPError" /\ oc.status_code = 429

\* line 204
wait_time_linear(attempt, jitter) == (attempt + 1) + jitter

wait_time(attempt, jitter) == Pow2(attempt) + jitter

\* line 207
last_attempt_early(attempt) == attempt >= max_retries - 2

last_attempt(attempt) == attempt = max_retries - 1

\* line 199: requests.post is issued
ThreadSend(r) ==
    /\ task[r].pc = "to_thread"
    /\ task' = [task EXCEPT ![r].pc = "posted"]
    /\ obs' = [obs EXCEPT ![r].out = @ + 1]
    /\ NoteOutbound("openai")
    /\ UNCHANGED <<now, ticks, OPENAI_API_KEY, GOOGLE_API_KEY, run_experiment_designer, stream, probe, _RESP_CACHE, storedBy,
                   _last_openai_call, lastBy, lockHolder, lockWaiters, loopBusy>>

\* lines 199-211: the call ends with outcome oc; a 429 starts the backoff sleep
ThreadRecv(r, oc, jitter) ==
    /\ task[r].pc = "posted"
    /\ IF oc.raised = "none"
       THEN /\ jitter = 0
            /\ task' = [task EXCEPT ![r] = [@ EXCEPT !.pc = "thread_done", !.data = oc.data]]
            /\ obs' = [obs EXCEPT ![r].last = oc]
       ELSE IF rate_limited(oc)
            THEN LET w == wait_time(task[r].attempt, jitter) IN
                 /\ task' = [task EXCEPT ![r] = [@ EXCEPT !.pc = "backoff", !.wake = now + w]]
                 /\ obs' = [obs EXCEPT ![r] = [@ EXCEPT !.last = oc, !.n429 = @ + 1,
                                                        !.sleeps = @ + 1, !.slept = @ + w]]
            ELSE /\ jitter = 0
                 /\ task' = [task EXCEPT ![r] = [@ EXCEPT !.pc = "thread_done", !.exc = TRUE]]
                 /\ obs' = [obs EXCEPT ![r].last = oc]
    /\ UNCHANGED <<now, ticks, OPENAI_API_KEY, GOOGLE_API_KEY, run_experiment_designer, stream, probe, _RESP_CACHE, storedBy,
                   _last_openai_call, lastBy, lockHolder, lockWaiters, loopBusy,
                   outLast, outMinGap>>

\* lines 206-209: time.sleep(wait_time) is over; the last attempt re-raises,
\* any other goes round the loop
BackoffWake(r) ==
    /\ task[r].pc = "backoff"
    /\ now >= task[r].wake
    /\ IF last_attempt(task[r].attempt)
       THEN task' = [task EXCEPT ![r] = [@ EXCEPT !.pc = "thread_done", !.exc = TRUE]]
       ELSE task' = [task EXCEPT ![r] = [@ EXCEPT !.pc = "to_thread", !.attempt = @ + 1]]
    /\ UNCHANGED <<now, ticks, OPENAI_API_KEY, GOOGLE_API_KEY, run_experiment_designer, stream, probe, _RESP_CACHE, storedBy,
                   _last_openai_call, lastBy, lockHolder, lockWaiters, loopBusy, obs,
                   outLast, outMinGap>>

-----------------------------------------------------------------------------
\* The clock

Sleepers == {r \in Reqs : task[r].pc \in {"rl_sleep", "backoff"} /\ task[r].wake > now}

Quiescent == \A r \in Reqs : task[r].pc \in {"idle", "done"}

\* between calls time passes freely: the next caller is late
Tick(d) ==
    /\ ticks < MaxTicks
    /\ Quiescent
    /\ \E r \in Reqs : task[r].pc = "idle"
    /\ ticks' = ticks + 1
    /\ now' = now + d
    /\ UNCHANGED <<OPENAI_API_KEY, GOOGLE_API_KEY, run_experiment_designer, stream, probe, _RESP_CACHE, storedBy, _last_openai_call,
                   lastBy, lockHolder, lockWaiters, loopBusy, task, obs, outLast, outMinGap>>

\* while calls are under way time passes until the earliest pending sleep is due
Advance ==
    /\ Sleepers # {}
    /\ now' = CHOOSE w \in {task[r].wake : r \in Sleepers} :
                 \A r \in Sleepers : w <= task[r].wake
    /\ UNCHANGED <<ticks, OPENAI_API_KEY, GOOGLE_API_KEY, run_experiment_designer, stream, probe, _RESP_CACHE, storedBy,
                   _last_openai_call, lastBy, lockHolder, lockWaiters, loopBusy, task, obs,
                   outLast, outMinGap>>

-----------------------------------------------------------------------------
\* Streaming actions

\* POST with streaming = true: the handler returns StreamingResponse(generate())
\* over a producer that will yield the updates us.  experiment_design answers
\* HTTP 500 instead when the designer was not imported (lines 344-348).
StreamRequest(e, us) ==
    /\ loopBusy = 0
    /\ stream.pc = "idle"
    /\ stream' = IF e = "experiment-design" /\ run_experiment_designer = None
                 THEN [NoStream EXCEPT !.pc = "http_500", !.endpoint = e]
                 ELSE [pc |-> "open", endpoint |-> e, updates |-> us, pending |-> us,
                       body |-> << >>]
    /\ UNCHANGED <<gateway, run_experiment_designer, probe>>

\* lines 329 / 356 / 381: the producer yields its next update and generate() yields
\* json.dumps(update) + newline, which the response writes to the body
generate_yield ==
    /\ loopBusy = 0
    /\ stream.pc = "open"
    /\ stream.pending # << >>
    /\ stream' = [stream EXCEPT
                     !.pending = Tail(@),
                     !.body = @ \o json_dumps(Head(stream.pending)) \o <<LF>>]
    /\ UNCHANGED <<gateway, run_experiment_designer, probe>>

\* the producer is exhausted: generate() ends and the body is complete
generate_end ==
    /\ loopBusy = 0
    /\ stream.pc = "open"
    /\ stream.pending = << >>
    /\ stream' = [stream EXCEPT !.pc = "closed"]
    /\ UNCHANGED <<gateway, run_experiment_designer, probe>>

-----------------------------------------------------------------------------
\* Cache actions

\* _cache_set(p, q, text) is called; the entry is written by no request
CacheSet(p, q, text) ==
    /\ probe.pc = "idle"
    /\ _RESP_CACHE' = _cache_set(_RESP_CACHE, now, p, q, text)
    /\ storedBy' = PutKey(storedBy, CacheKey(p, q), 0)
    /\ probe' = [probe EXCEPT !.pc = "set", !.setProvider = p, !.setPrompt = q,
                              !.setText = text, !.setT = now]
    /\ UNCHANGED <<now, ticks, OPENAI_API_KEY, GOOGLE_API_KEY, run_experiment_designer, stream,
                   _last_openai_call, lastBy, lockHolder, lockWaiters, loopBusy, task, obs,
                   outLast, outMinGap>>

\* _cache_get(p, q) is called
CacheGet(p, q) ==
    /\ probe.pc = "set"
    /\ LET g == _cache_get(_RESP_CACHE, now, p, q) IN
       /\ _RESP_CACHE' = g.cache
       /\ storedBy' = [k \in DOMAIN g.cache |-> storedBy[k]]
       /\ probe' = [probe EXCEPT !.pc = "got", !.getProvider = p, !.getPrompt = q,
                                 !.got = g.text, !.getT = now]
    /\ UNCHANGED <<now, ticks, OPENAI_API_KEY, GOOGLE_API_KEY, run_experiment_designer, stream,
                   _last_openai_call, lastBy, lockHolder, lockWaiters, loopBusy, task, obs,
                   outLast, outMinGap>>

-----------------------------------------------------------------------------
\* Specifications

RateLimited == {oc \in Outcomes : rate_limited(oc)}

\* The whole gateway: any callers, any replies, any stream
Next ==
    \/ \E e \in StreamEndpoints, us \in Productions : StreamRequest(e, us)
    \/ generate_yield
    \/ generate_end
    \/ \E p \in Endpoints, q \in KeyPrompts, text \in Texts : CacheSet(p, q, text)
    \/ \E p \in Endpoints, q \in KeyPrompts : CacheGet(p, q)
    \/ \E r \in Reqs, p \in ProviderIds, q \in Prompts : model_research(r, p, q)
    \/ \E r \in Reqs : LockGranted(r)
    \/ \E r \in Reqs : RlWake(r)
    \/ \E r \in Reqs : Resume(r)
    \/ \E r \in Reqs, oc \in GeminiOutcomes : GeminiReturn(r, oc)
    \/ \E r \in Reqs : ThreadSend(r)
    \/ \E r \in Reqs, oc \in Outcomes, jitter \in JitterChoices : ThreadRecv(r, oc, jitter)
    \/ \E r \in Reqs : BackoffWake(r)
    \/ \E d \in TickSteps : Tick(d)
    \/ Advance

Spec == Init /\ [][Next]_vars

\* One call and every reply a provider can give it, the whole retry loop
\* included (a single call never waits for _OPENAI_LOCK; it sleeps in
\* _respect_openai_rl when the clock reads less than _RATE_WINDOW_SEC)
NextOneCall ==
    \/ \E p \in ProviderIds, q \in Prompts : model_research(1, p, q)
    \/ RlWake(1)
    \/ Resume(1)
    \/ \E oc \in GeminiOutcomes : GeminiReturn(1, oc)
    \/ ThreadSend(1)
    \/ \E oc \in Outcomes, jitter \in JitterChoices : ThreadRecv(1, oc, jitter)
    \/ BackoffWake(1)
    \/ \E d \in TickSteps : Tick(d)
    \/ Advance

SpecOneCall == Init /\ [][NextOneCall]_vars

\* Concurrent calls to providers that answer or fail but never rate-limit
NextCalls ==
    \/ \E r \in Callers, p \in ProviderIds, q \in Prompts : model_research(r, p, q)
    \/ \E r \in Callers : LockGranted(r)
    \/ \E r \in Callers : RlWake(r)
    \/ \E r \in Callers : Resume(r)
    \/ \E r \in Callers, oc \in GeminiOutcomes : GeminiReturn(r, oc)
    \/ \E r \in Callers : ThreadSend(r)
    \/ \E r \in Callers, oc \in Outcomes \ RateLimited : ThreadRecv(r, oc, 0)
    \/ \E d \in TickSteps : Tick(d)
    \/ Advance

SpecCalls == Init /\ [][NextCalls]_vars

\* Concurrent calls, for either strategy, to providers that always answer
Answers == {oc \in Outcomes : oc.raised = "none" /\ oc.data.choices = <<"T1">>}
GeminiAnswers == {oc \in GeminiOutcomes : ~oc.raised /\ oc.text = "T1"}

NextHealthy ==
    \/ \E r \in Reqs, p \in Endpoints, q \in Prompts : model_research(r, {p}, q)
    \/ \E r \in Reqs : LockGranted(r)
    \/ \E r \in Reqs : RlWake(r)
    \/ \E r \in Reqs : Resume(r)
    \/ \E r \in Reqs, oc \in GeminiAnswers : GeminiReturn(r, oc)
    \/ \E r \in Reqs : ThreadSend(r)
    \/ \E r \in Reqs, oc \in Answers : ThreadRecv(r, oc, 0)
    \/ \E d \in TickSteps : Tick(d)
    \/ Advance

SpecHealthy == Init /\ [][NextHealthy]_vars

\* Calls that arrive back to back, with one prompt, under fair scheduling:
\* the event loop runs every ready callback, sleeps end, the worker thread
\* runs, provider calls return
NextAcquire ==
    \/ \E r \in Reqs, p \in Endpoints : model_research(r, {p}, <<"b">>)
    \/ \E r \in Reqs : LockGranted(r)
    \/ \E r \in Reqs : RlWake(r)
    \/ \E r \in Reqs : Resume(r)
    \/ \E r \in Reqs, oc \in GeminiAnswers : GeminiReturn(r, oc)
    \/ \E r \in Reqs : ThreadSend(r)
    \/ \E r \in Reqs, oc \in Answers : ThreadRecv(r, oc, 0)
    \/ Advance

SpecAcquireFair ==
    /\ Init
    /\ [][NextAcquire]_vars
    /\ WF_vars(\E r \in Reqs : LockGranted(r))
    /\ WF_vars(\E r \in Reqs : RlWake(r))
    /\ WF_vars(\E r \in Reqs : Resume(r))
    /\ WF_vars(\E r \in Reqs, oc \in GeminiAnswers : GeminiReturn(r, oc))
    /\ WF_vars(\E r \in Reqs : ThreadSend(r))
    /\ WF_vars(\E r \in Reqs, oc \in Answers : ThreadRecv(r, oc, 0))
    /\ WF_vars(Advance)

\* Calls made one after the other, for either strategy, to providers that
\* answer, fail or rate-limit
Replies == Answers \cup {oc \in Outcomes : oc.raised = "HTTPError"}

NextSeq ==
    \/ \E r \in Callers, p \in Endpoints, q \in Prompts :
          Quiescent /\ model_research(r, {p}, q)
    \/ \E r \in Callers : RlWake(r)
    \/ \E r \in Callers : Resume(r)
    \/ \E r \in Callers, oc \in GeminiOutcomes : GeminiReturn(r, oc)
    \/ \E r \in Callers : ThreadSend(r)
    \/ \E r \in Callers, oc \in Replies : ThreadRecv(r, oc, 0)
    \/ \E r \in Callers : BackoffWake(r)
    \/ \E d \in TickSteps : Tick(d)
    \/ Advance

SpecSeq == Init /\ [][NextSeq]_vars

\* One _cache_set and, some time later, one _cache_get
NextKey ==
    \/ \E p \in Endpoints, q \in KeyPrompts, text \in Texts : CacheSet(p, q, text)
    \/ \E p \in Endpoints, q \in KeyPrompts : CacheGet(p, q)
    \/ \E d \in TickSteps : Tick(d)

SpecKey == Init /\ [][NextKey]_vars

\* One streaming request over any production
NextStream ==
    \/ \E e \in StreamEndpoints, us \in Productions : StreamRequest(e, us)
    \/ generate_yield
    \/ generate_end

SpecStream == Init /\ [][NextStream]_vars

TypeOK ==
    /\ now \in Nat
    /\ lockHolder \in Reqs \cup {0}
    /\ loopBusy \in Reqs \cup {0}
    /\ \A r \in Reqs : task[r].attempt \in 0..(max_retries - 1)

-----------------------------------------------------------------------------
\* Properties

Done(r) == task[r].pc = "done"

SamePair(r1, r2) ==
    /\ task[r1].provider = task[r2].provider
    /\ task[r1].prompt = task[r2].prompt

\* the call obtained a provider response and stored it
Stored(r) == Done(r) /\ obs[r].ret = "envelope" /\ obs[r].env.raw \in {"data", "gemini_response"}

CacheHitResult(r1, r2) ==
    /\ obs[r2].env.ok
    /\ obs[r2].env.summary = obs[r1].env.summary
    /\ obs[r2].env.raw = "cached"
    /\ obs[r2].out = 0

\* C1 as stated: whenever a call for a (providerId, prompt) pair is followed
\* within TTL by a second call for the same pair, the second call returns the
\* first call's summary, is marked cached and issues no outbound call.
C1_AnySecondCallIsHit ==
    \A r1 \in Reqs, r2 \in Reqs :
        (Done(r2) /\ r1 \in obs[r2].follows /\ SamePair(r1, r2)) => CacheHitResult(r1, r2)

\* C1 amended: when the first call stored a successful provider response, and
\* the second call for the same pair starts within TTL of that store and finds
\* the entry the first call wrote, the second call returns the first call's
\* summary, is marked cached and issues no outbound call.
C1_SecondCallAfterStoreIsHit ==
    \A r1 \in Reqs, r2 \in Reqs :
        ( /\ Done(r2)
          /\ r1 \in obs[r2].follows
          /\ SamePair(r1, r2)
          /\ Stored(r1)
          /\ obs[r2].sawBy = r1 )
        => CacheHitResult(r1, r2)

C1_Witness ==
    \E r1 \in Reqs, r2 \in Reqs :
        /\ Done(r2) /\ r1 \in obs[r2].follows /\ SamePair(r1, r2) /\ Stored(r1)
        /\ obs[r2].sawBy = r1
        /\ obs[r2].seenAge = _RESP_TTL
        /\ obs[r2].env.raw = "cached"
        /\ obs[r2].env.summary = "T2"

\* C2 as stated: consecutive outbound calls to one provider, the re-sent calls
\* of the retry loop included, are at least _RATE_WINDOW_SEC apart.
C2_OutboundSpacing ==
    \A e \in Endpoints : outMinGap[e] >= _RATE_WINDOW_SEC

\* sum over n = 0..k-1 of baseDelay * 2^n, baseDelay being one second
RECURSIVE BackoffSum(_)
BackoffSum(k) == IF k = 0 THEN 0 ELSE BackoffSum(k - 1) + Pow2(k - 1)

\* the last reply is a 200 whose body yields a message
Succeeded(r) ==
    /\ obs[r].last.raised = "none"
    /\ obs[r].last.status_code = 200
    /\ Len(obs[r].last.data.choices) = 1

\* C3: a call answered 429 exactly K < max_retries times and then with a
\* well-formed 200 ends in a non-degraded, non-cached envelope carrying the
\* provider's text, after exactly K retries and K backoff sleeps that total,
\* and take, at least the sum of 2^n over n = 0..K-1 seconds.
C3_BoundedRetry ==
    \A r \in Reqs :
        (Done(r) /\ Succeeded(r)) =>
            LET K == obs[r].n429
                content == obs[r].last.data.choices[1]
            IN /\ K < max_retries
               /\ obs[r].ret = "envelope"
               /\ obs[r].env.ok
               /\ obs[r].env.raw = "data"
               /\ obs[r].env.summary = (IF content = "" THEN NoResponse ELSE content)
               /\ obs[r].out = K + 1
               /\ obs[r].sleeps = K
               /\ obs[r].slept >= BackoffSum(K)
               /\ obs[r].doneT - obs[r].startT >= BackoffSum(K)

C3_Witness ==
    \E r \in Reqs :
        /\ Done(r) /\ Succeeded(r)
        /\ obs[r].n429 = max_retries - 1
        /\ obs[r].env.summary = "T1"
        /\ obs[r].slept = BackoffSum(max_retries - 1)

\* every reply the call got was a 429
OnlyRateLimited(r) ==
    /\ obs[r].last.raised = "HTTPError"
    /\ obs[r].last.status_code = 429

\* C4: a call whose every reply is a 429 makes exactly max_retries outbound
\* attempts and then returns the degraded envelope: ok, the apology text, the
\* rate_limited marker; nothing is raised out of call_selected_provider.
C4_RetryExhaustion ==
    \A r \in Reqs :
        (Done(r) /\ OnlyRateLimited(r)) =>
            /\ obs[r].out = max_retries
            /\ obs[r].n429 = max_retries
            /\ obs[r].ret = "envelope"
            /\ obs[r].env.ok
            /\ obs[r].env.summary = Apology
            /\ obs[r].env.raw = "rate_limited"

C4_Witness ==
    \E r \in Reqs :
        /\ Done(r) /\ OnlyRateLimited(r)
        /\ obs[r].out = max_retries
        /\ obs[r].env.summary = Apology

\* the provider was called and the call did not end in a usable answer
ProviderFailed(r) ==
    /\ obs[r].out > 0
    /\ \/ obs[r].last.raised # "none"
       \/ Len(obs[r].last.data.choices) = 0

C6_TavilyKeepsProvider ==
    \A r \in Reqs :
        (Done(r) /\ task[r].provider = {"tavily"}) => obs[r].env.provider = "tavily"

\* C7 as stated: a request held back in the rate limiter is held back only by
\* acquisitions made for its own provider.
C7_IndependentLimiters ==
    \A r \in Reqs :
        /\ task[r].pc = "rl_sleep" => lastBy \in {"none", StrategyOf(task[r])}
        /\ (task[r].pc = "lock_wait" /\ lockHolder # 0)
               => StrategyOf(task[lockHolder]) = StrategyOf(task[r])

\* C8: a request for an unknown provider id is served by the openai strategy
\* and answered with ok = TRUE; the unknown id itself raises nothing.
C8_UnknownProvider ==
    \A r \in Reqs :
        (Done(r) /\ task[r].provider = {"nonexistent-provider"}) =>
            /\ obs[r].env.ok
            /\ outLast["gemini"] < 0
            /\ OPENAI_API_KEY # None =>
                   /\ obs[r].ret = "envelope"
                   /\ obs[r].env.provider = "openai"

C8_Witness ==
    \E r \in Reqs :
        /\ Done(r) /\ task[r].provider = {"nonexistent-provider"}
        /\ obs[r].ret = "envelope"
        /\ obs[r].env.provider = "openai"
        /\ obs[r].env.summary = "T1"

\* the step in which request r looks its prompt up in the cache
Lookup(r) == task[r].pc = "idle" /\ task'[r].pc # "idle"

\* C9: a lookup made later than TTL after the entry was stored returns
\* nothing and removes the entry from the cache.
C9_Expiry ==
    [][\A r \in Reqs :
          Lookup(r) =>
              LET key == CacheKey(StrategyOf(task'[r]), task'[r].prompt) IN
              (key \in DOMAIN _RESP_CACHE /\ now - _RESP_CACHE[key].ts > _RESP_TTL)
                  => /\ obs'[r].got = None
                     /\ key \notin DOMAIN _RESP_CACHE'
                     /\ obs'[r].env.raw # "cached"]_vars

C9_Witness ==
    \E r \in Reqs :
        /\ obs[r].seenAge > _RESP_TTL
        /\ obs[r].got = None
        /\ task[r].pc \in {"rl_sleep", "to_thread", "gemini_call"}
        /\ CacheKey(StrategyOf(task[r]), task[r].prompt) \notin DOMAIN _RESP_CACHE

\* the credential of the strategy serving r is unset
CredentialMissing(r) ==
    IF StrategyOf(task[r]) = "openai" THEN OPENAI_API_KEY = None ELSE GOOGLE_API_KEY = None

\* C10: with the credential of the chosen provider unset, a call for an
\* uncached prompt makes no outbound call and the endpoint answers ok = TRUE
\* with a summary that reports the failure.
C10_MissingCredential ==
    \A r \in Reqs :
        (Done(r) /\ CredentialMissing(r) /\ obs[r].got = None) =>
            /\ obs[r].env.ok
            /\ obs[r].out = 0
            /\ obs[r].env.summary =
                   (IF StrategyOf(task[r]) = "openai"
                    THEN ErrorSummary(task[r].provider) ELSE Apology)

C10_Witness ==
    \E r \in Reqs :
        /\ Done(r) /\ CredentialMissing(r) /\ obs[r].got = None
        /\ StrategyOf(task[r]) = "openai"
        /\ obs[r].ret = "exception"
        /\ obs[r].env.ok

\* the request is suspended inside the check-wait-reserve section (line 189)
InSection(r) == task[r].pc = "rl_sleep"

\* the request has completed its acquisition
Acquired(r) == obs[r].acqT >= 0

\* C11: at most one request at a time is inside the check-wait-reserve
\* section of _respect_openai_rl, it is the holder of _OPENAI_LOCK, and the
\* timestamps reserved by any two completed acquisitions are at least
\* _RATE_WINDOW_SEC apart.
C11_SerializedSpacing ==
    /\ Cardinality({r \in Reqs : InSection(r)}) <= 1
    /\ \A r \in Reqs : InSection(r) => lockHolder = r
    /\ \A r1 \in Reqs, r2 \in Reqs :
           (r1 # r2 /\ Acquired(r1) /\ Acquired(r2)) =>
               \/ obs[r1].acqT - obs[r2].acqT >= _RATE_WINDOW_SEC
               \/ obs[r2].acqT - obs[r1].acqT >= _RATE_WINDOW_SEC

C11_Witness ==
    \E r1 \in Reqs, r2 \in Reqs, r3 \in Reqs :
        /\ Acquired(r1) /\ Acquired(r2) /\ Acquired(r3)
        /\ obs[r2].startT < obs[r1].acqT
        /\ obs[r3].startT < obs[r1].acqT
        /\ obs[r2].acqT = obs[r1].acqT + _RATE_WINDOW_SEC
        /\ obs[r3].acqT = obs[r2].acqT + _RATE_WINDOW_SEC

\* the request is inside _respect_openai_rl: waiting for the lock or asleep
InAcquire(r) == task[r].pc \in {"lock_wait", "rl_sleep"}

\* C12: the sleep inside one acquisition is at most _RATE_WINDOW_SEC, and
\* under fair scheduling every request that entered _respect_openai_rl
\* eventually returns from it.
C12_AcquireReturns ==
    /\ [](\A r \in Reqs : InSection(r) => task[r].wake - now <= _RATE_WINDOW_SEC)
    /\ \A r \in Reqs : InAcquire(r) ~> Acquired(r)

C12_Witness ==
    \E r \in Reqs :
        /\ Done(r) /\ Acquired(r)
        /\ obs[r].acqT - obs[r].startT >= 2 * _RATE_WINDOW_SEC
        /\ lockHolder = 0 /\ lockWaiters = << >>

\* what a reader of the body sees: the newline-terminated units, and the
\* characters after the last newline
RECURSIVE Split(_, _, _)
Split(b, cur, acc) ==
    IF b = << >> THEN [units |-> acc, rest |-> cur]
    ELSE IF Head(b) = LF
         THEN Split(Tail(b), << >>, Append(acc, cur))
         ELSE Split(Tail(b), Append(cur, Head(b)), acc)

\* the number a reader takes from the four hexadecimal digits at s[i..i+3]
Hex4At(s, i) ==
    LET h(d) == CHOOSE v \in 0..15 :
                    d \in {SubSeq("0123456789abcdef", v + 1, v + 1),
                           SubSeq("0123456789ABCDEF", v + 1, v + 1)}
    IN 4096 * h(s[i]) + 256 * h(s[i + 1]) + 16 * h(s[i + 2]) + h(s[i + 3])

\* the character with code point n, written "U+" and its digits
Character(n) ==
    LET X(v) == SubSeq("0123456789ABCDEF", v + 1, v + 1)
        low == X((n \div 4096) % 16) \o X((n \div 256) % 16) \o X((n \div 16) % 16) \o X(n % 16)
    IN IF n < 65536 THEN "U+" \o low
       ELSE IF n < 1048576 THEN "U+" \o X(n \div 65536) \o low
       ELSE "U+10" \o low

\* a \uXXXX escape starts at s[1], and a second one follows it
UnicodeAt(s) == Len(s) >= 6 /\ s[1] = Backslash /\ s[2] = "u"

\* the reader's json.loads of one unit holding a JSON string
RECURSIVE Unescape(_)
Unescape(s) ==
    IF s = << >> THEN << >>
    ELSE IF UnicodeAt(s)
    THEN LET hi == Hex4At(s, 3)
             after == SubSeq(s, 7, Len(s))
         IN IF hi \in 55296..56319 /\ UnicodeAt(after) /\ Hex4At(after, 3) \in 56320..57343
            THEN <<Character(65536 + (hi - 55296) * 1024 + (Hex4At(after, 3) - 56320))>>
                     \o Unescape(SubSeq(after, 7, Len(after)))
            ELSE <<Character(hi)>> \o Unescape(after)
    ELSE IF Head(s) = Backslash /\ Len(s) >= 2
         THEN (CASE s[2] = "n" -> <<LF>>
                 [] s[2] = "t" -> <<"\t">>
                 [] s[2] = "r" -> <<"\r">>
                 [] s[2] = "f" -> <<"\f">>
                 [] s[2] = "b" -> <<"U+0008">>
                 [] OTHER -> <<s[2]>>) \o Unescape(Tail(Tail(s)))
         ELSE <<Head(s)>> \o Unescape(Tail(s))

IsJsonString(unit) == Len(unit) >= 2 /\ unit[1] = Quote /\ unit[Len(unit)] = Quote

json_loads(unit) == Unescape(SubSeq(unit, 2, Len(unit) - 1))

\* the number of updates the producer has yielded so far
Yielded == Len(stream.updates) - Len(stream.pending)

\* C13: at every moment the response body of a streaming request is exactly
\* one newline-terminated serialized unit per update yielded so far, in the
\* producer's order, each unit reading back as its update; the closed body
\* holds one unit per update of the production.
C13_OneUnitPerUpdate ==
    LET sp == Split(stream.body, << >>, << >>) IN
    /\ sp.rest = << >>
    /\ Len(sp.units) = Yielded
    /\ \A i \in 1..Len(sp.units) :
           /\ IsJsonString(sp.units[i])
           /\ i <= Len(stream.updates) => json_loads(sp.units[i]) = stream.updates[i]
    /\ stream.pc = "closed" => Yielded = Len(stream.updates)

C13_Witness ==
    /\ stream.pc = "closed"
    /\ Len(stream.updates) = MaxUpdates
    /\ stream.updates[1] = <<"a", LF, "b">>
    /\ stream.updates[2] = << >>
    /\ Len(Split(stream.body, << >>, << >>).units) = MaxUpdates

\* the last reply of the provider was a failure other than HTTP 429
OtherFailure(r) ==
    \/ obs[r].last.raised \in {"ConnectionError", "Timeout"}
    \/ obs[r].last.raised = "HTTPError" /\ obs[r].last.status_code # 429

\* C14: only a 429 reply is followed by a backoff sleep and another attempt:
\* after a failure of any other kind _send makes no further attempt and does
\* not sleep, so a call whose first attempt fails that way issues exactly one
\* outbound call.
C14_RetryOnlyOn429 ==
    \A r \in Reqs :
        /\ obs[r].out <= obs[r].n429 + 1
        /\ obs[r].sleeps <= obs[r].n429
        /\ task[r].pc = "backoff" => obs[r].last.status_code = 429
        /\ (task[r].pc \in {"thread_done", "done"} /\ OtherFailure(r)) =>
               /\ obs[r].out = obs[r].n429 + 1
               /\ obs[r].sleeps = obs[r].n429
               /\ obs[r].n429 = 0 => (obs[r].out = 1 /\ obs[r].sleeps = 0)

C14_Witness ==
    \E r \in Reqs :
        /\ Done(r)
        /\ obs[r].last.raised = "Timeout"
        /\ obs[r].out = 1
        /\ obs[r].sleeps = 0
        /\ obs[r].doneT = obs[r].acqT

\* C15 as stated: a provider failure other than a 429 reaches the caller of
\* the strategy as an error, not as a success-shaped envelope.
C15_FailureSurfaced ==
    \A r \in Reqs :
        (Done(r) /\ OtherFailure(r)) => ~(obs[r].ret = "envelope" /\ obs[r].env.ok)

\* C15 amended: a provider failure other than a 429 is raised by _post_json
\* to the strategy at once, and the strategy turns it into the degraded
\* envelope: ok, the apology text, the rate_limited marker.
C15_FailureDegraded ==
    \A r \in Reqs :
        /\ (task[r].pc = "thread_done" /\ OtherFailure(r)) =>
               (task[r].exc /\ obs[r].out = obs[r].n429 + 1)
        /\ (Done(r) /\ OtherFailure(r)) =>
               /\ obs[r].ret = "envelope"
               /\ obs[r].env.ok
               /\ obs[r].env.summary = Apology
               /\ obs[r].env.raw = "rate_limited"

C15_Witness ==
    \E r \in Reqs :
        /\ Done(r)
        /\ obs[r].last.raised = "HTTPError"
        /\ obs[r].last.status_code = 500
        /\ obs[r].n429 = 0
        /\ obs[r].env.summary = Apology
        /\ obs[r].env.raw = "rate_limited"

\* C16 as stated: a call whose every reply is a 429 sleeps between attempts
\* only, one time fewer than it makes attempts.
C16_NoSleepAfterLastAttempt ==
    \A r \in Reqs :
        (task[r].pc \in {"thread_done", "done"} /\ OnlyRateLimited(r)) =>
            obs[r].sleeps = obs[r].out - 1

\* C17 as stated: a lookup made when the entry's age is TTL or more, exactly
\* TTL included, returns nothing.
C17_HiddenFromTTL ==
    \A r \in Reqs : obs[r].seenAge >= _RESP_TTL => obs[r].got = None

\* C17, what _cache_get does instead (main.py:174, "> _RESP_TTL"): a lookup
\* made when the entry's age is at most TTL, exactly TTL included, returns
\* the stored text and leaves the entry as it is; a lookup made when the age
\* is greater than TTL returns nothing.
C17_VisibleUpToTTL ==
    [][\A r \in Reqs :
          Lookup(r) =>
              LET key == CacheKey(StrategyOf(task'[r]), task'[r].prompt) IN
              key \in DOMAIN _RESP_CACHE =>
                  IF now - _RESP_CACHE[key].ts <= _RESP_TTL
                  THEN /\ obs'[r].got = {_RESP_CACHE[key].text}
                       /\ obs'[r].env.summary = _RESP_CACHE[key].text
                       /\ _RESP_CACHE' = _RESP_CACHE
                  ELSE obs'[r].got = None]_vars

C17_Witness ==
    \E r1 \in Reqs, r2 \in Reqs :
        /\ obs[r1].seenAge = _RESP_TTL
        /\ obs[r1].got = {"T1"}
        /\ obs[r1].env.raw = "cached"
        /\ obs[r2].seenAge = _RESP_TTL + 1
        /\ obs[r2].got = None

\* the two calls use one cache key
SameKey(r1, r2) ==
    CacheKey(StrategyOf(task[r1]), task[r1].prompt)
        = CacheKey(StrategyOf(task[r2]), task[r2].prompt)

\* the call called its provider and ended with the apology
DegradedCall(r) == Done(r) /\ obs[r].out > 0 /\ obs[r].env.summary = Apology

\* call r2 began after call r1 ended, with no stored call for r2's key between
NextAfter(r1, r2) ==
    /\ Done(r1) /\ task[r2].pc # "idle" /\ r1 # r2
    /\ obs[r2].startT >= obs[r1].doneT
    /\ \A r3 \in Reqs \ {r1, r2} :
           ~(Stored(r3) /\ SameKey(r3, r2) /\ obs[r3].doneT <= obs[r2].startT)

\* C18: every cache entry holds the text of a successful provider response,
\* written by the call that obtained it; the apology of a degraded call is
\* never stored, a cache hit always serves a stored success, and the call made
\* next for the key of a degraded call is not answered from the cache.
C18_OnlySuccessStored ==
    /\ \A k \in DOMAIN _RESP_CACHE :
           /\ _RESP_CACHE[k].text \in Texts \cup {NoResponse}
           /\ Stored(storedBy[k])
           /\ _RESP_CACHE[k].text = obs[storedBy[k]].env.summary
    /\ \A r \in Reqs :
           obs[r].got # None => (Stored(obs[r].sawBy) /\ obs[r].got # {Apology})
    /\ \A r1 \in Reqs, r2 \in Reqs :
           (DegradedCall(r1) /\ SameKey(r1, r2) /\ NextAfter(r1, r2)) =>
               (obs[r2].got = None /\ obs[r2].env.raw # "cached")

C18_Witness ==
    \E r1 \in Reqs, r2 \in Reqs :
        /\ DegradedCall(r1) /\ SameKey(r1, r2) /\ NextAfter(r1, r2)
        /\ obs[r1].n429 = max_retries
        /\ obs[r2].startT - obs[r1].doneT < _RESP_TTL
        /\ obs[r2].got = None
        /\ Stored(r2)
        /\ \E k \in DOMAIN _RESP_CACHE : storedBy[k] = r2

\* C19: the step of a call answered from the cache completes the call at
\* once: it makes no outbound call and no acquisition, leaves
\* _last_openai_call, the lock and its waiters as they are, whoever holds the
\* lock, and leaves the cache, the entry it served included, unchanged.
C19_HitBypassesLimiter ==
    [][\A r \in Reqs :
          (Lookup(r) /\ Truthy(obs'[r].got)) =>
              /\ task'[r].pc = "done"
              /\ obs'[r].env.raw = "cached"
              /\ obs'[r].out = 0
              /\ ~Acquired(r)'
              /\ _last_openai_call' = _last_openai_call
              /\ lockHolder' = lockHolder
              /\ lockWaiters' = lockWaiters
              /\ _RESP_CACHE' = _RESP_CACHE]_vars

C19_Witness ==
    \E r1 \in Reqs, r2 \in Reqs, r3 \in Reqs :
        /\ r1 < r2 /\ r2 < r3
        /\ Stored(r1)
        /\ obs[r1].doneT < obs[r2].startT
        /\ task[r2].pc = "rl_sleep"
        /\ lockHolder = r2
        /\ Done(r3)
        /\ obs[r3].env.raw = "cached"
        /\ obs[r3].sawBy = r1
        /\ obs[r3].doneT = obs[r3].startT

\* a provider call of request r is in flight
InFlight(r) == task[r].pc \in {"posted", "gemini_call"}

\* the next request to arrive
NextCaller(s) == task[s].pc = "idle" /\ \A u \in Reqs : u < s => task[u].pc # "idle"

\* C20 as stated: while the provider call of one request is in flight, for
\* either strategy, the handler of another request can run.
C20_OthersNotBlocked ==
    \A r \in Reqs, s \in Reqs :
        (InFlight(r) /\ NextCaller(s)) =>
            ENABLED (\E p \in Endpoints, q \in Prompts : model_research(s, {p}, q))

\* a character that counts as surrounding whitespace: the ASCII blanks and
\* separators, NEL, the no-break space and the Unicode spaces
Blank(c) ==
    \/ c \in {" ", "\t", "\n", "\r", "\f", "U+000B"}
    \/ c \in {"U+001C", "U+001D", "U+001E", "U+001F", "U+0085", "U+00A0", "U+1680"}
    \/ c \in {"U+2000", "U+2001", "U+2002", "U+2003", "U+2004", "U+2005", "U+2006",
              "U+2007", "U+2008", "U+2009", "U+200A"}
    \/ c \in {"U+2028", "U+2029", "U+202F", "U+205F", "U+3000"}

\* the prompt without its leading and trailing whitespace
Trimmed(q) ==
    LET n == Len(q)
        lead == CHOOSE k \in 0..n :
                    /\ \A i \in 1..k : Blank(q[i])
                    /\ k = n \/ ~Blank(q[k + 1])
        trail == CHOOSE k \in 0..n :
                     /\ \A i \in 1..k : Blank(q[n + 1 - i])
                     /\ k = n \/ ~Blank(q[n - k])
    IN IF lead = n THEN << >> ELSE SubSeq(q, lead + 1, n - trail)

\* the two prompts agree on the first KeyPrefixLen characters of their
\* trimmed texts
SameFingerprint(q1, q2) ==
    LET a == Trimmed(q1)
        b == Trimmed(q2)
    IN \A i \in 1..KeyPrefixLen :
           /\ (i <= Len(a)) <=> (i <= Len(b))
           /\ i <= Len(a) => a[i] = b[i]

\* C21: a _cache_get made within TTL of a _cache_set returns the stored text
\* when it names the same provider and a prompt with the same fingerprint
\* (trimmed, then cut to KeyPrefixLen characters), and returns nothing when
\* the provider or the fingerprint differs.
C21_KeyIsProviderAndFingerprint ==
    (probe.pc = "got" /\ probe.getT - probe.setT <= _RESP_TTL) =>
        IF /\ probe.getProvider = probe.setProvider
           /\ SameFingerprint(probe.setPrompt, probe.getPrompt)
        THEN probe.got = {probe.setText}
        ELSE probe.got = None

\* two prompts that differ only after their 1000th trimmed character, one of
\* them wrapped in whitespace, share the entry
C21_Witness ==
    /\ probe.pc = "got"
    /\ probe.getT - probe.setT = _RESP_TTL
    /\ probe.getProvider = probe.setProvider
    /\ Len(probe.setPrompt) = KeyPrefixLen + 1
    /\ Len(probe.getPrompt) = KeyPrefixLen + 5
    /\ probe.setPrompt[KeyPrefixLen + 1] = "b"
    /\ Trimmed(probe.getPrompt)[KeyPrefixLen + 1] = "a"
    /\ probe.got = {probe.setText}
    /\ probe.got = {"T2"}

====
